---- MODULE Spec2Model ----
(***************************************************************************)
(* The CRUD mutation/query pipeline of apiens (crud/crudbase.py,           *)
(* crud/query/query_api.py) over one SqlAlchemy session.                   *)
(*                                                                         *)
(* The entity type is the `User` model of the tests: an integer primary    *)
(* key `id` fed by a sequence, a NOT NULL boolean `is_admin` and a         *)
(* nullable string `login` (`name` is a second nullable string column      *)
(* with the same behaviour as `login` and is left out).                    *)
(*                                                                         *)
(* A handler method is a function from a context (the session, the         *)
(* table it sees, the Parameters, the calls made so far) to a context, an  *)
(* exception name (Ok when none) and a value; an action runs one public    *)
(* method to its end and records the call in `last`.                       *)
(***************************************************************************)
EXTENDS Integers, Sequences, FiniteSets, TLC

\* ------------------------------------------------------------ value domains
MaxKeys == 2                  \* largest input dictionary, in keys

Ids == 1..2                   \* identity values (and the range of the sequence)
NoId == 0                     \* `id: Optional[int] = None` of the Parameters
Null == "NULL"                \* a NULL column value
Columns == {"id", "is_admin", "login"}
primary_key == <<"id">>       \* crudsettings.primary_key of the User model
PkNames == {primary_key[i] : i \in DOMAIN primary_key}
Ok == "ok"                    \* no exception

Empty == [x \in {} |-> x]     \* the empty dictionary
Opt(k, V) == {Empty} \cup {[x \in {k} |-> v] : v \in V}

\* The input dictionaries over the columns of the model.
InputDicts ==
    {d \in {(a @@ b) @@ c : a \in Opt("id", Ids), b \in Opt("is_admin", BOOLEAN),
                            c \in Opt("login", {"john1"})} :
        Cardinality(DOMAIN d) <= MaxKeys}

\* The input dictionaries with a key that is no attribute of the model.
UnknownDicts ==
    {d @@ u : d \in {x \in InputDicts : Cardinality(DOMAIN x) < MaxKeys},
              u \in {[x \in {"UNKNOWN"} |-> "INVALID"]}}

\* The keys UserMutateApi declares with @saves_custom_fields.
CustomKeys == {"articles", "new_articles"}

\* The input dictionaries that carry the declared key `new_articles`.
CustomDicts ==
    {d @@ u : d \in {x \in InputDicts : Cardinality(DOMAIN x) < MaxKeys},
              u \in {[x \in {"new_articles"} |-> "build-great-apis"]}}

\* The Parameters objects: the identity they name, the caller's role, and whether
\* filter_one() is identity-complete.
ParamsSet == [id : Ids \cup {NoId}, i_am_admin : BOOLEAN, by_pk : BOOLEAN]

\* ------------------------------------------------------------------- state
VARIABLES
    db,          \* the table as the session's transaction sees it (flushed rows)
    committed,   \* the table as of the last commit (what another connection sees)
    seq,         \* last value drawn from the id sequence
    active,      \* FALSE after a failed flush, until the session is rolled back
    params,      \* self.params of the handler
    _filter_func,\* self._filter_func of the query handler
    last,        \* the last public call: its input, outcome, result and inner calls
    sessions,    \* the update_id() calls of concurrent sessions, each at its step
    environ      \* os.environ of the process

vars == <<db, committed, seq, active, params, _filter_func, last, sessions, environ>>

\* The concurrent sessions, none of which has called anything yet.
Sessions == 1..2
IdleSession == [pc |-> "idle", input |-> <<>>, inst |-> <<>>, writes |-> <<>>,
                found_no |-> 0, flush_no |-> 0, outcome |-> "none"]
NoSessions == [s \in Sessions |-> IdleSession]

\* The environment of a process in which CORS_ORIGINS is not set.
NoEnviron == [set |-> FALSE, text |-> <<>>, modified |-> FALSE]

\* ---------------------------------------------------------------- context
Ctx == [db |-> db, committed |-> committed, seq |-> seq, active |-> active,
        params |-> params, _filter_func |-> _filter_func,
        trace |-> <<>>, hooks |-> <<>>, found |-> {}, customized |-> <<>>]

Ev(c, e) == [c EXCEPT !.trace = Append(@, e)]

NoInstance == [identity |-> <<>>, attrs |-> Empty, committed_state |-> Empty]

\* ------------------------------------------------------- SqlAlchemy session
\* An instance loaded from a row: persistent, clean.
Loaded(r) == [identity |-> <<r.id>>, attrs |-> r, committed_state |-> Empty]

\* setattr(instance, key, value): change tracking keeps the value as of the last
\* flush of a column that is assigned; a key that is no column becomes a plain
\* attribute of the object.
SetAttr(inst, k, v) ==
    [inst EXCEPT
        !.attrs = (k :> v) @@ @,
        !.committed_state = IF k \in Columns /\ k \in DOMAIN inst.attrs /\ k \notin DOMAIN @
                            THEN (k :> inst.attrs[k]) @@ @ ELSE @]

\* The row an INSERT of `attrs` stores under identity `id`.
RowOf(attrs, id) ==
    [id |-> id, is_admin |-> attrs["is_admin"],
     login |-> IF "login" \in DOMAIN attrs THEN attrs["login"] ELSE Null]

\* A flush that fails rolls the session's transaction back and leaves the session
\* unusable until Session.rollback().
FlushFailed(c, exc, inst) ==
    [c |-> [c EXCEPT !.db = c.committed, !.active = FALSE], exc |-> exc, inst |-> inst]

\* ssn.flush() with one new instance pending.
FlushInsert(c0, inst) ==
    LET c == Ev(c0, "flush")
        auto == "id" \notin DOMAIN inst.attrs
        id == IF auto THEN c.seq + 1 ELSE inst.attrs["id"]
        c1 == IF auto THEN [c EXCEPT !.seq = id] ELSE c
    IN  IF ~c.active THEN [c |-> c, exc |-> "PendingRollbackError", inst |-> inst]
        ELSE IF "is_admin" \notin DOMAIN inst.attrs \/ \E r \in c.db : r.id = id
        THEN FlushFailed(c1, "IntegrityError", inst)
        ELSE [c |-> [c1 EXCEPT !.db = @ \cup {RowOf(inst.attrs, id)}], exc |-> Ok,
              inst |-> Loaded(RowOf(inst.attrs, id))]

\* zip(crudsettings.primary_key, instance_state(instance).identity)
_get_primary_key_dict(inst) ==
    [k \in {primary_key[i] : i \in DOMAIN primary_key \cap DOMAIN inst.identity} |->
        inst.identity[CHOOSE i \in DOMAIN primary_key : primary_key[i] = k]]

\* ------------------------------------------------------------------ hooks
_instance_hook_presave(c, new, prev) ==
    [c EXCEPT !.trace = Append(@, "hook"), !.hooks = Append(@, [new |-> new, prev |-> prev])]

\* ----------------------------------------------------------------- create
\* Model(**input_dict): the declarative constructor rejects a keyword that is
\* no attribute of the model.
_create_instance_from_input_dict(d) ==
    IF DOMAIN d \subseteq Columns
    THEN [exc |-> Ok, inst |-> [identity |-> <<>>, attrs |-> d, committed_state |-> Empty]]
    ELSE [exc |-> "TypeError", inst |-> NoInstance]

_create_instance(c, d) ==
    LET r == _create_instance_from_input_dict(d)
    IN  IF r.exc # Ok THEN [c |-> Ev(c, "construct"), exc |-> r.exc, inst |-> r.inst]
        ELSE [c |-> _instance_hook_presave(Ev(c, "construct"), <<r.inst.attrs>>, <<>>),
              exc |-> Ok, inst |-> r.inst]

_session_create_instance_impl(c, inst) == FlushInsert(Ev(c, "add"), inst)

\* create() with the hook fired after the flush.
create_hook_after_flush(c0, d) ==
    LET c == Ev(c0, "create")
        r == _create_instance_from_input_dict(d)
        b == _session_create_instance_impl(Ev(c, "construct"), r.inst)
    IN  IF r.exc # Ok THEN [c |-> Ev(c, "construct"), exc |-> r.exc, val |-> Empty]
        ELSE IF b.exc # Ok THEN [c |-> b.c, exc |-> b.exc, val |-> Empty]
        ELSE [c |-> Ev(_instance_hook_presave(b.c, <<r.inst.attrs>>, <<>>), "pk"),
              exc |-> Ok, val |-> _get_primary_key_dict(b.inst)]

\* create() that catches the failure of the flush and raises an error of its own.
create_translating(c0, d) ==
    LET c == Ev(c0, "create")
        a == _create_instance(c, d)
        b == _session_create_instance_impl(a.c, a.inst)
    IN  IF a.exc # Ok THEN [c |-> a.c, exc |-> a.exc, val |-> Empty]
        ELSE IF b.exc # Ok THEN [c |-> b.c, exc |-> "E_CONFLICT", val |-> Empty]
        ELSE [c |-> Ev(b.c, "pk"), exc |-> Ok, val |-> _get_primary_key_dict(b.inst)]

create(c0, d) ==
    LET c == Ev(c0, "create")
        a == _create_instance(c, d)
        b == _session_create_instance_impl(a.c, a.inst)
    IN  IF a.exc # Ok THEN [c |-> a.c, exc |-> a.exc, val |-> Empty]
        ELSE IF b.exc # Ok THEN [c |-> b.c, exc |-> b.exc, val |-> Empty]
        ELSE [c |-> Ev(b.c, "pk"), exc |-> Ok, val |-> _get_primary_key_dict(b.inst)]

\* ----------------------------------------------------------- Parameters
\* UserIdCrudParams.filter(): only admins can touch admins.
filter(p, r) == p.i_am_admin \/ r.is_admin = FALSE

\* CrudParams.filter_one(): the caller's predicates and the identity ones.
filter_one(p, r) == filter(p, r) /\ (p.by_pk => r.id = p.id)

\* CrudParams.from_input_dict(): the Parameters take the identity the input names.
from_input_dict(c, d) == [Ev(c, "from_input_dict") EXCEPT !.params.id = d["id"]]

\* ----------------------------------------------------------------- lookup
\* The lookup with first() for one(): of several matches it picks one.
_find_instance_first(c0) ==
    LET c == Ev(c0, "find")
        rows == {r \in c.db : filter_one(c.params, r)}
    IN  IF ~c.active THEN [c |-> c, exc |-> "PendingRollbackError", inst |-> NoInstance]
        ELSE IF rows = {}
        THEN [c |-> c, exc |-> "NoResultFound", inst |-> NoInstance]
        ELSE [c |-> [c EXCEPT !.found = rows], exc |-> Ok,
              inst |-> Loaded(CHOOSE r \in rows : TRUE)]

\* The lookup without the Parameters' predicates: ssn.query(Model).one()
_find_instance_unfiltered(c0) ==
    LET c == Ev(c0, "find")
        rows == c.db
    IN  IF ~c.active THEN [c |-> c, exc |-> "PendingRollbackError", inst |-> NoInstance]
        ELSE IF rows = {}
        THEN [c |-> c, exc |-> "NoResultFound", inst |-> NoInstance]
        ELSE IF Cardinality(rows) > 1
        THEN [c |-> [c EXCEPT !.found = rows], exc |-> "MultipleResultsFound", inst |-> NoInstance]
        ELSE [c |-> [c EXCEPT !.found = rows], exc |-> Ok,
              inst |-> Loaded(CHOOSE r \in rows : TRUE)]

\* The lookup by the identity alone, without the caller's predicates.
_find_instance_by_identity(c0) ==
    LET c == Ev(c0, "find")
        rows == {r \in c.db : c.params.by_pk => r.id = c.params.id}
    IN  IF ~c.active THEN [c |-> c, exc |-> "PendingRollbackError", inst |-> NoInstance]
        ELSE IF rows = {}
        THEN [c |-> c, exc |-> "NoResultFound", inst |-> NoInstance]
        ELSE IF Cardinality(rows) > 1
        THEN [c |-> [c EXCEPT !.found = rows], exc |-> "MultipleResultsFound", inst |-> NoInstance]
        ELSE [c |-> [c EXCEPT !.found = rows], exc |-> Ok,
              inst |-> Loaded(CHOOSE r \in rows : TRUE)]

\* ssn.query(Model).filter(*self.params.filter_one()).one()
_find_instance(c0) ==
    LET c == Ev(c0, "find")
        rows == {r \in c.db : filter_one(c.params, r)}
    IN  IF ~c.active THEN [c |-> c, exc |-> "PendingRollbackError", inst |-> NoInstance]
        ELSE IF rows = {}
        THEN [c |-> c, exc |-> "NoResultFound", inst |-> NoInstance]
        ELSE IF Cardinality(rows) > 1
        THEN [c |-> [c EXCEPT !.found = rows], exc |-> "MultipleResultsFound", inst |-> NoInstance]
        ELSE [c |-> [c EXCEPT !.found = rows], exc |-> Ok,
              inst |-> Loaded(CHOOSE r \in rows : TRUE)]

\* ----------------------------------------------------------------- update
RECURSIVE SetAll(_, _, _)
SetAll(inst, d, keys) ==
    IF keys = {} THEN inst
    ELSE LET k == CHOOSE x \in keys : TRUE
         IN  SetAll(SetAttr(inst, k, d[k]), d, keys \ {k})

\* The update that replaces the entity: a column the input omits is reset.
_update_instance_replacing(inst, d) ==
    SetAll(IF "login" \in DOMAIN d THEN inst ELSE SetAttr(inst, "login", Null), d, DOMAIN d)

\* for key, value in input_dict.items(): setattr(instance, key, value)
_update_instance_from_input_dict(inst, d) == SetAll(inst, d, DOMAIN d)

\* get_history_proxy_for_instance(): the attribute values as of the last flush.
get_history_proxy_for_instance(inst) ==
    [k \in Columns |-> IF k \in DOMAIN inst.committed_state
                       THEN inst.committed_state[k] ELSE inst.attrs[k]]

\* The update with the snapshot taken from the current attribute values.
_update_instance_snapshot_current(c, inst0, d) ==
    LET inst == _update_instance_from_input_dict(inst0, d)
        prev == [k \in Columns |-> inst.attrs[k]]
    IN  [c |-> _instance_hook_presave(Ev(Ev(c, "assign"), "snapshot"), <<inst.attrs>>, <<prev>>),
         exc |-> Ok, inst |-> inst]

_update_instance(c, inst0, d) ==
    LET inst == _update_instance_from_input_dict(inst0, d)
        prev == get_history_proxy_for_instance(inst)
    IN  [c |-> _instance_hook_presave(Ev(Ev(c, "assign"), "snapshot"), <<inst.attrs>>, <<prev>>),
         exc |-> Ok, inst |-> inst]

\* ssn.flush() with one persistent instance, possibly modified.
FlushUpdate(c0, inst) ==
    LET c == Ev(c0, "flush")
        old == CHOOSE r \in c.db : r.id = inst.identity[1]
        new == [k \in Columns |-> inst.attrs[k]]
    IN  IF ~c.active THEN [c |-> c, exc |-> "PendingRollbackError", inst |-> inst]
        ELSE IF new.id # old.id /\ \E r \in c.db : r.id = new.id
        THEN FlushFailed(c, "IntegrityError", inst)
        ELSE [c |-> [c EXCEPT !.db = (@ \ {old}) \cup {new}], exc |-> Ok,
              inst |-> [inst EXCEPT !.identity = <<new.id>>, !.committed_state = Empty]]

_session_update_instance_impl(c, inst) == FlushUpdate(c, inst)

\* update_id() that reads the identity of the instance as it was before the flush.
update_id_pk_before_flush(c0, d) ==
    LET c == Ev(c0, "update_id")
        f == _find_instance(c)
        u == _update_instance(f.c, f.inst, d)
        s == _session_update_instance_impl(u.c, u.inst)
    IN  IF f.exc # Ok THEN [c |-> f.c, exc |-> f.exc, val |-> Empty]
        ELSE IF s.exc # Ok THEN [c |-> s.c, exc |-> s.exc, val |-> Empty]
        ELSE [c |-> Ev(s.c, "pk"), exc |-> Ok, val |-> _get_primary_key_dict(u.inst)]

\* update_id() that looks the entity up again after the assignment and refuses
\* an entity that the caller's predicates no longer admit.
update_id_rechecking_filter(c0, d) ==
    LET c == Ev(c0, "update_id")
        f == _find_instance(c)
        u == _update_instance(f.c, f.inst, d)
        s == _session_update_instance_impl(u.c, u.inst)
    IN  IF f.exc # Ok THEN [c |-> f.c, exc |-> f.exc, val |-> Empty]
        ELSE IF ~filter_one(c.params, [k \in Columns |-> u.inst.attrs[k]])
        THEN [c |-> u.c, exc |-> "NoResultFound", val |-> Empty]
        ELSE IF s.exc # Ok THEN [c |-> s.c, exc |-> s.exc, val |-> Empty]
        ELSE [c |-> Ev(s.c, "pk"), exc |-> Ok, val |-> _get_primary_key_dict(s.inst)]

update_id(c0, d) ==
    LET c == Ev(c0, "update_id")
        f == _find_instance(c)
        u == _update_instance(f.c, f.inst, d)
        s == _session_update_instance_impl(u.c, u.inst)
    IN  IF f.exc # Ok THEN [c |-> f.c, exc |-> f.exc, val |-> Empty]
        ELSE IF s.exc # Ok THEN [c |-> s.c, exc |-> s.exc, val |-> Empty]
        ELSE [c |-> Ev(s.c, "pk"), exc |-> Ok, val |-> _get_primary_key_dict(s.inst)]

\* update() that keeps the identity the Parameters already name.
update_keeping_params(c0, d) == update_id(Ev(c0, "update"), d)

update(c0, d) == update_id(from_input_dict(Ev(c0, "update"), d), d)

\* The comparison of the key sets made strict: set(input_dict) > set(primary_key)
pk_provided_strict(d) == PkNames \subseteq DOMAIN d /\ PkNames # DOMAIN d

\* pk_provided = set(input_dict) >= set(self.crudsettings.primary_key)
pk_provided(d) == PkNames \subseteq DOMAIN d

\* create_or_update() without the dispatch: it always creates.
create_or_update_always_create(c0, d) == create(Ev(c0, "create_or_update"), d)

create_or_update(c0, d) ==
    LET c == Ev(c0, "create_or_update")
    IN  IF pk_provided(d) THEN update(c, d) ELSE create(c, d)

\* ----------------------------------------------------------------- delete
_delete_instance(c, inst) ==
    [c |-> _instance_hook_presave(c, <<>>, <<inst.attrs>>), exc |-> Ok, inst |-> inst]

\* ssn.refresh(instance): the row as the transaction sees it.
Refresh(c, inst) == Loaded(CHOOSE r \in c.db : r.id = inst.identity[1])

\* ssn.delete(instance); ssn.flush()
FlushDelete(c0, inst) ==
    LET c == Ev(Ev(c0, "delete_instance"), "flush")
    IN  [c |-> [c EXCEPT !.db = {r \in @ : r.id # inst.identity[1]}], exc |-> Ok, inst |-> inst]

\* The session support for delete() without ssn.delete(instance).
_session_delete_instance_impl_no_delete(c, inst) ==
    [c |-> Ev(Ev(c, "refresh"), "flush"), exc |-> Ok, inst |-> Refresh(c, inst)]

_session_delete_instance_impl(c, inst) == FlushDelete(Ev(c, "refresh"), Refresh(c, inst))

delete(c0) ==
    LET c == Ev(c0, "delete")
        f == _find_instance(c)
        pk == _get_primary_key_dict(f.inst)
        h == _delete_instance(Ev(f.c, "pk"), f.inst)
        s == _session_delete_instance_impl(h.c, h.inst)
    IN  IF f.exc # Ok THEN [c |-> f.c, exc |-> f.exc, val |-> Empty]
        ELSE [c |-> s.c, exc |-> Ok, val |-> pk]

\* ---------------------------------------------------------------- queries
MaxLevel == 1                 \* deepest nested query level of a query object

\* The related table `a` (Article): one article per user.
Articles == {[id |-> u, user_id |-> u] : u \in Ids}

\* CrudParams.filter_many(): the predicates of a listing.
filter_many(p, r) == filter(p, r)

\* The predicates of the filter function `ff`, as a test on a row.
Predicates(ff, p, r) == IF ff = "filter_one" THEN filter_one(p, r)
                        ELSE IF ff = "filter_many" THEN filter_many(p, r)
                        ELSE filter(p, r)

\* The customization hook that adds the predicates to no statement.
_query_customize_statements_unfiltered(ff, p, query_level, stmt) == stmt

\* QueryApi._query_customize_statements(): a statement is the rows it selects.
_query_customize_statements(ff, p, query_level, stmt) ==
    IF query_level = 0 THEN {r \in stmt : Predicates(ff, p, r)} ELSE stmt

\* jessiql runs every function of query.customize_statements on the statement
\* of each query level; the call is recorded.
Customize(c, query_level, stmt) ==
    LET out == _query_customize_statements(c._filter_func, c.params, query_level, stmt)
    IN  [c |-> [c EXCEPT !.customized = Append(@, [query_level |-> query_level,
                    _filter_func |-> c._filter_func, stmt |-> stmt, out |-> out])],
         rows |-> out]

\* The statement of a nested level: the rows related to the rows loaded one level
\* up (User.articles on odd levels, Article.user on even ones).
Related(table, parents, query_level) ==
    IF query_level % 2 = 1
    THEN {a \in Articles : \E u \in parents : a.user_id = u.id}
    ELSE {u \in table : \E a \in parents : u.id = a.user_id}

\* The related queries of levels k..n, each on the rows of the level above.
RECURSIVE LoadRelated(_, _, _, _, _)
LoadRelated(c, table, parents, k, n) ==
    IF k > n THEN c
    ELSE LET r == Customize(c, k, Related(table, parents, k))
         IN  LoadRelated(r.c, table, r.rows, k + 1, n)

\* query.fetchall(connection): the rows of level 0 and, for a query object with
\* `n` nested levels, the related queries.
fetchall(c, table, n) ==
    LET r == Customize(c, 0, table)
    IN  [c |-> LoadRelated(r.c, table, r.rows, 1, n), exc |-> Ok, val |-> r.rows]

\* query.fetchone(): exactly one row, or the persistence layer's failure.
fetchone(rows) ==
    IF rows = {} THEN [exc |-> "NoResultFound", val |-> Empty]
    ELSE IF Cardinality(rows) > 1 THEN [exc |-> "MultipleResultsFound", val |-> Empty]
    ELSE [exc |-> Ok, val |-> CHOOSE r \in rows : TRUE]

\* query.fetchone(connection) of a query object with `n` nested levels.
fetchone_query(c, table, n) ==
    LET r == Customize(c, 0, table)
        one == fetchone(r.rows)
    IN  IF one.exc # Ok THEN [c |-> r.c, exc |-> one.exc, val |-> Empty]
        ELSE [c |-> LoadRelated(r.c, table, r.rows, 1, n), exc |-> Ok, val |-> one.val]

\* query.count(connection): the number of rows of level 0.
count_query(c, table) ==
    LET r == Customize(c, 0, table)
    IN  [c |-> r.c, exc |-> Ok, val |-> Cardinality(r.rows)]

\* The translation scope that converts "no row" only.
converting_no_result_only(exc) == IF exc = "NoResultFound" THEN "E_NOT_FOUND" ELSE exc

\* converting_sa_errors(): "no row" and "multiple rows" become E_NOT_FOUND.
converting_sa_errors(exc) ==
    IF exc \in {"NoResultFound", "MultipleResultsFound"} THEN "E_NOT_FOUND" ELSE exc

\* The result of a statement run on the connection of the session's transaction.
OnConnection(c, r) ==
    IF ~c.active THEN [c |-> c, exc |-> "PendingRollbackError", val |-> Empty] ELSE r

\* QueryApi.list() of crud/query/query_api.py.
list(c0, n) ==
    LET c == [Ev(c0, "list") EXCEPT !._filter_func = "filter"]
    IN  OnConnection(c, fetchall(c, c.db, n))

\* get() that leaves the filter function as the call before selected it.
get_keeping_filter(c0, n) ==
    LET c == Ev(c0, "get")
        r == fetchone_query(c, c.db, n)
    IN  OnConnection(c, [r EXCEPT !.exc = converting_sa_errors(@)])

\* QueryApi.get() of crud/query/query_api.py: reads through ssn.connection(), the
\* connection of the session's transaction.
get(c0, n) ==
    LET c == [Ev(c0, "get") EXCEPT !._filter_func = "filter_one"]
        r == fetchone_query(c, c.db, n)
    IN  OnConnection(c, [r EXCEPT !.exc = converting_sa_errors(@)])

\* QueryApi.count() of crud/query/query_api.py.
count(c0) ==
    LET c == [Ev(c0, "count") EXCEPT !._filter_func = "filter"]
    IN  OnConnection(c, count_query(c, c.db))

\* QueryApi.list() of crud/crudbase.py.
crudbase_list(c0, n) ==
    LET c == [Ev(c0, "list") EXCEPT !._filter_func = "filter_many"]
    IN  fetchall(c, c.committed, n)

\* QueryApi.get() of crud/crudbase.py: reads through ssn.get_bind(), the engine
\* the session is bound to, which runs the statement on a connection of its own.
crudbase_get(c0, n) ==
    LET c == [Ev(c0, "get") EXCEPT !._filter_func = "filter_one"]
    IN  fetchone_query(c, c.committed, n)

\* QueryApi.count() of crud/crudbase.py.
crudbase_count(c0) ==
    LET c == [Ev(c0, "count") EXCEPT !._filter_func = "filter_many"]
    IN  count_query(c, c.committed)

\* The rows in the order of their id.
RECURSIVE order_by_id(_)
order_by_id(rows) ==
    IF rows = {} THEN <<>>
    ELSE LET r == CHOOSE x \in rows : \A y \in rows : x.id <= y.id
         IN  <<r>> \o order_by_id(rows \ {r})

\* all_users(ssn): ssn.query(User).order_by(User.id.asc()).all()
all_users(c0) ==
    LET c == Ev(c0, "all_users")
    IN  IF ~c.active THEN [c |-> c, exc |-> "PendingRollbackError", val |-> <<>>]
        ELSE [c |-> c, exc |-> Ok, val |-> order_by_id(c.db)]

\* ----------------------------------------------------------------- actions
\* No call yet.
NoCall == [op |-> "none", input |-> Empty, outcome |-> Ok, result |-> Empty,
           trace |-> <<>>, hooks |-> <<>>, found |-> {}, customized |-> <<>>,
           before |-> {}]

\* The call `op(d)` ended as `r`.
Returns(op, d, r) ==
    /\ db' = r.c.db
    /\ seq' = r.c.seq
    /\ active' = r.c.active
    /\ params' = r.c.params
    /\ last' = [op |-> op, input |-> d, outcome |-> r.exc, result |-> r.val,
                trace |-> r.c.trace, hooks |-> r.c.hooks, found |-> r.c.found,
                customized |-> r.c.customized, before |-> db]
    /\ UNCHANGED <<committed, _filter_func, sessions, environ>>

\* The sequence is drawn from only while it stays within Ids.
SeqLeft(d) == "id" \in DOMAIN d \/ seq + 1 \in Ids

Create(d) == SeqLeft(d) /\ Returns("create", d, create(Ctx, d))

CreateOrUpdate(d) == SeqLeft(d) /\ Returns("create_or_update", d, create_or_update(Ctx, d))

\* update() is called with an input that names the identity.
Update(d) == PkNames \subseteq DOMAIN d /\ Returns("update", d, update(Ctx, d))

UpdateId(d) == Returns("update_id", d, update_id(Ctx, d))

Delete == Returns("delete", Empty, delete(Ctx))

\* A read: nothing but the handler's filter function and `last` changes.
Reads(op, r) ==
    /\ _filter_func' = r.c._filter_func
    /\ last' = [op |-> op, input |-> Empty, outcome |-> r.exc, result |-> r.val,
                trace |-> r.c.trace, hooks |-> r.c.hooks, found |-> r.c.found,
                customized |-> r.c.customized, before |-> db]
    /\ UNCHANGED <<db, committed, seq, active, params, sessions, environ>>

\* The reads, for a query object with `n` nested levels.
List(n) == Reads("list", list(Ctx, n))

Get(n) == Reads("get", get(Ctx, n))

Count == Reads("count", count(Ctx))

CrudbaseList(n) == Reads("crudbase_list", crudbase_list(Ctx, n))

CrudbaseGet(n) == Reads("crudbase_get", crudbase_get(Ctx, n))

CrudbaseCount == Reads("crudbase_count", crudbase_count(Ctx))

AllUsers == Reads("all_users", all_users(Ctx))

\* Session.commit() of the transaction-boundary collaborator.
Commit ==
    /\ active
    /\ committed' = db
    /\ last' = [NoCall EXCEPT !.op = "commit", !.before = db]
    /\ UNCHANGED <<db, seq, active, params, _filter_func, sessions, environ>>

\* Session.rollback() of the transaction-boundary collaborator.
Rollback ==
    /\ db' = committed
    /\ active' = TRUE
    /\ last' = [NoCall EXCEPT !.op = "rollback", !.before = db]
    /\ UNCHANGED <<committed, seq, params, _filter_func, sessions, environ>>

Init ==
    /\ db = {}
    /\ committed = {}
    /\ seq = 0
    /\ active = TRUE
    /\ params \in ParamsSet
    /\ _filter_func = "unset"
    /\ last = NoCall
    /\ sessions = NoSessions
    /\ environ = NoEnviron

Next ==
    \/ \E d \in InputDicts : Create(d)
    \/ \E d \in InputDicts : CreateOrUpdate(d)
    \/ \E d \in InputDicts : Update(d)
    \/ \E d \in InputDicts : UpdateId(d)
    \/ Delete
    \/ Rollback

Spec == Init /\ [][Next]_vars

\* The session with its transaction boundary and the reads: a handler whose
\* Parameters are identity-complete, and inputs that leave the identity to the
\* sequence.
TxnDicts == {d \in InputDicts : "id" \notin DOMAIN d}

InitTxn == Init /\ params.by_pk

NextTxn ==
    \/ \E d \in TxnDicts : Create(d)
    \/ \E d \in TxnDicts : UpdateId(d)
    \/ Delete
    \/ Get(0)
    \/ CrudbaseGet(0)
    \/ AllUsers
    \/ Commit
    \/ Rollback

SpecTxn == InitTxn /\ [][NextTxn]_vars

\* The mutations called with input dictionaries that carry an unknown key.
NextUnknown ==
    \/ \E d \in TxnDicts : Create(d)
    \/ \E d \in UnknownDicts : Create(d)
    \/ \E d \in UnknownDicts : UpdateId(d)
    \/ Rollback

SpecUnknown == Init /\ [][NextUnknown]_vars

\* The query handlers on a session whose tables were filled and committed.
Rows == [id : Ids, is_admin : BOOLEAN, login : {Null, "john1"}]

Tables == {t \in SUBSET Rows : \A a, b \in t : a.id = b.id => a = b}

InitQuery ==
    /\ db \in Tables
    /\ committed = db
    /\ seq = 0
    /\ active = TRUE
    /\ params \in ParamsSet
    /\ _filter_func = "unset"
    /\ last = NoCall
    /\ sessions = NoSessions
    /\ environ = NoEnviron

NextQuery ==
    \/ \E n \in 0..MaxLevel : List(n)
    \/ \E n \in 0..MaxLevel : Get(n)
    \/ Count
    \/ \E n \in 0..MaxLevel : CrudbaseList(n)
    \/ \E n \in 0..MaxLevel : CrudbaseGet(n)
    \/ CrudbaseCount

SpecQuery == InitQuery /\ [][NextQuery]_vars

\* -------------------------------------------------------- custom fields
\* The "not provided" marker, a value of its own.
MISSING == "MISSING"

\* What an input gives for a declared key: None, or a list of article dicts.
ArticleLists == {Null, "build-great-apis"}

\* The inputs of a mutation of UserMutateApi: some columns and any of the declared
\* keys.
DispatchDicts ==
    {d @@ u : d \in {x \in InputDicts : Cardinality(DOMAIN x) < MaxKeys},
              u \in UNION {[K -> ArticleLists] : K \in SUBSET CustomKeys}}

\* Python's binding of the keyword arguments of save_articles, with None for
\* the default of a keyword that was not passed.
save_articles_default_none(kwargs) ==
    LET bound == [k \in CustomKeys |-> IF k \in DOMAIN kwargs THEN kwargs[k] ELSE Null]
        articles == IF bound["new_articles"] # MISSING THEN bound["new_articles"]
                    ELSE bound["articles"]
    IN  [received |-> bound,
         exc |-> IF articles = Null THEN "TypeError" ELSE Ok,
         extended |-> IF articles \in {MISSING, Null} THEN MISSING ELSE articles]

\* UserMutateApi.save_articles: a keyword that was not passed is bound to its
\* default, MISSING; new_articles takes the place of articles; the articles given
\* are appended to new.articles, and iterating None is a TypeError.
save_articles(kwargs) ==
    LET bound == [k \in CustomKeys |-> IF k \in DOMAIN kwargs THEN kwargs[k] ELSE MISSING]
        articles == IF bound["new_articles"] # MISSING THEN bound["new_articles"]
                    ELSE bound["articles"]
    IN  [received |-> bound,
         exc |-> IF articles = Null THEN "TypeError" ELSE Ok,
         extended |-> IF articles \in {MISSING, Null} THEN MISSING ELSE articles]

\* The declared keys of the input, taken out of it.
pluck_custom_fields(d) == [k \in DOMAIN d \cap CustomKeys |-> d[k]]

\* The custom-field dispatcher for one mutation with input `d`: the declared keys
\* are taken out of the input and the handler is called once with them.  Two
\* things are left open and both ways are modelled: whether the handler is called
\* when no declared key is present (`always`), and whether an absent key is
\* passed as MISSING or left to the handler's default (`explicit`).
saves_custom_fields(d, always, explicit) ==
    LET custom == pluck_custom_fields(d)
        kwargs == IF explicit
                  THEN [k \in CustomKeys |-> IF k \in DOMAIN custom THEN custom[k] ELSE MISSING]
                  ELSE custom
        calls  == IF DOMAIN custom = {} /\ ~always THEN <<>> ELSE <<save_articles(kwargs)>>
    IN  [rest |-> [k \in DOMAIN d \ CustomKeys |-> d[k]], calls |-> calls]

\* One mutation's input goes through the dispatcher.
SaveCustomFields(d, always, explicit) ==
    LET r == saves_custom_fields(d, always, explicit) IN
    /\ last' = [NoCall EXCEPT !.op = "saves_custom_fields", !.input = d,
                              !.outcome = IF \E i \in DOMAIN r.calls : r.calls[i].exc # Ok
                                          THEN "TypeError" ELSE Ok,
                              !.result = r]
    /\ UNCHANGED <<db, committed, seq, active, params, _filter_func, sessions, environ>>

NextDispatch ==
    \E d \in DispatchDicts, always \in BOOLEAN, explicit \in BOOLEAN :
        SaveCustomFields(d, always, explicit)

SpecDispatch == Init /\ [][NextDispatch]_vars

\* The mutations of a handler that declares custom fields, called with inputs that
\* carry a declared key.
NextCustom ==
    \/ \E d \in TxnDicts : Create(d)
    \/ \E d \in CustomDicts : Create(d)
    \/ \E d \in CustomDicts : UpdateId(d)
    \/ Rollback

SpecCustom == Init /\ [][NextCustom]_vars

\* ------------------------------------------------------------- settings
\* The value of CORS_ORIGINS is a string, kept as the sequence of its characters.
MaxText == 3
Chars == {"a", ",", " "}
Texts == UNION {[1..n -> Chars] : n \in 0..MaxText}

\* The environments a process can start with; the marker is not set.
Environs == {NoEnviron} \cup {[set |-> TRUE, text |-> t, modified |-> FALSE] : t \in Texts}

\* v.split(','): the pieces between the commas, at least one.
RECURSIVE split(_)
split(v) ==
    IF \A i \in DOMAIN v : v[i] # "," THEN <<v>>
    ELSE LET i == CHOOSE j \in DOMAIN v : v[j] = "," /\ \A k \in 1..(j - 1) : v[k] # ","
         IN  <<SubSeq(v, 1, i - 1)>> \o split(SubSeq(v, i + 1, Len(v)))

\* i.strip(): without the spaces at either end.
RECURSIVE strip(_)
strip(i) ==
    IF i = <<>> THEN i
    ELSE IF i[1] = " " THEN strip(Tail(i))
    ELSE IF i[Len(i)] = " " THEN strip(SubSeq(i, 1, Len(i) - 1))
    ELSE i

\* prepare_cors_origins(v) for a string
prepare_cors_origins(v) == [n \in DOMAIN split(v) |-> strip(split(v)[n])]

\* json.dumps of a string: quoted, with quotes and backslashes escaped.
RECURSIVE dumps_chars(_)
dumps_chars(i) ==
    IF i = <<>> THEN <<>>
    ELSE (IF i[1] \in {"\"", "\\"} THEN <<"\\", i[1]>> ELSE <<i[1]>>) \o dumps_chars(Tail(i))

\* json.dumps of a list of strings: ["a", "b"]
RECURSIVE dumps_items(_)
dumps_items(items) ==
    IF items = <<>> THEN <<>>
    ELSE <<"\"">> \o dumps_chars(items[1]) \o <<"\"">>
         \o (IF Len(items) > 1 THEN <<",", " ">> ELSE <<>>) \o dumps_items(Tail(items))

dumps(items) == <<"[">> \o dumps_items(items) \o <<"]">>

\* os.getenv(CORS_NAME, '')
getenv(env) == IF env.set THEN env.text ELSE <<>>

\* The environment hack of CorsMixin.__init__ without the marker test.
CorsMixinEnviron_every_time(env) ==
    [set |-> TRUE, text |-> dumps(prepare_cors_origins(getenv(env))), modified |-> TRUE]

\* The environment hack of CorsMixin.__init__: rewrite the variable unless the
\* marker is set, and set the marker.
CorsMixinEnviron(env) ==
    IF ~env.modified
    THEN [set |-> TRUE, text |-> dumps(prepare_cors_origins(getenv(env))), modified |-> TRUE]
    ELSE env

\* super().__init__(): the settings are parsed from the environment; an empty
\* item is no URL.
ParseSettings(env) ==
    IF \E i \in 1..(Len(env.text) - 1) : env.text[i] = "\"" /\ env.text[i + 1] = "\""
    THEN "ValidationError" ELSE Ok

\* Settings(): CorsMixin.__init__ as a whole.
ConstructSettings ==
    /\ environ' = CorsMixinEnviron(environ)
    /\ last' = [NoCall EXCEPT !.op = "Settings", !.input = environ,
                              !.outcome = ParseSettings(CorsMixinEnviron(environ)),
                              !.result = CorsMixinEnviron(environ)]
    /\ UNCHANGED <<db, committed, seq, active, params, _filter_func, sessions>>

InitSettings ==
    /\ db = {}
    /\ committed = {}
    /\ seq = 0
    /\ active = TRUE
    /\ params \in ParamsSet
    /\ _filter_func = "unset"
    /\ last = NoCall
    /\ sessions = NoSessions
    /\ environ \in Environs

NextSettings == ConstructSettings

SpecSettings == InitSettings /\ [][NextSettings]_vars

\* ------------------------------------------------------------------ doc
\* The application error classes and one exception that is none.
ErrorClasses == {"E_NOT_FOUND", "E_FAIL"}
MaxDecorators == 2

\* The @doc.error(...) decorators of one function, innermost first.
Decorations == UNION {[1..n -> ErrorClasses] : n \in 0..MaxDecorators}

\* What the documented function does when called.
Behaviours == {"return"} \cup ErrorClasses \cup {"KeyError"}

\* doc(): the marker with nothing documented.  result_doc is None (<<>>) or one
\* documentation object.
NewDoc == [result_doc |-> <<>>, errors_doc |-> {}]

\* doc.error(error, summary): the summary is named by the error class.
doc_error(error) ==
    [NewDoc EXCEPT !.result_doc = <<[error |-> error, summary |-> <<error>>]>>]

\* doc.merge(another); Documentation.merge() appends the other summary.
merge(self, another) ==
    [result_doc |-> IF self.result_doc # <<>>
                    THEN IF another.result_doc # <<>>
                         THEN <<[self.result_doc[1] EXCEPT
                                    !.summary = @ \o another.result_doc[1].summary]>>
                         ELSE self.result_doc
                    ELSE another.result_doc,
     errors_doc |-> self.errors_doc \cup another.errors_doc]

\* doc.decorator(func) for each decorator in turn: the marker already on the
\* function is merged into the new one.  <<>> stands for "no marker yet".
RECURSIVE decorator(_, _)
decorator(ds, k) ==
    IF k = 0 THEN <<>>
    ELSE LET marker == decorator(ds, k - 1)
         IN  <<IF marker # <<>> THEN merge(doc_error(ds[k]), marker[1]) ELSE doc_error(ds[k])>>

\* The wrapper of wrap_func_check_thrown_errors_are_documented around a function
\* that behaves as `b`.
wrap_func_check_thrown_errors_are_documented(self, b) ==
    IF b \in ErrorClasses /\ b \notin self.errors_doc THEN "AssertionError" ELSE b

\* A function is decorated with @doc.error for each of `ds`, wrapped, and called.
Wrapper(ds, b) ==
    LET marker == IF ds = <<>> THEN NewDoc ELSE decorator(ds, Len(ds))[1] IN
    /\ last' = [NoCall EXCEPT !.op = "wrapper",
                              !.input = [errors |-> ds, behaviour |-> b],
                              !.outcome = wrap_func_check_thrown_errors_are_documented(marker, b),
                              !.result = marker]
    /\ UNCHANGED <<db, committed, seq, active, params, _filter_func, sessions, environ>>

\* A reference is a string of names joined by dots, kept as the sequence of its
\* names; the empty string is <<>>.  An object is named by its path from the
\* function's globals.
Names == {"pkg", "exc", "E_FAIL", "KeyError"}
MaxParts == 3
References == UNION {[1..n -> Names] : n \in 1..MaxParts}

\* func.__globals__ and what hangs off it: the error class itself, the module
\* `exc` that has it, and the package `pkg` that has that module.
Objects == {<<"E_FAIL">>, <<"exc">>, <<"exc", "E_FAIL">>,
            <<"pkg">>, <<"pkg", "exc">>, <<"pkg", "exc", "E_FAIL">>}
Builtins == {<<"KeyError">>}
IsApplicationError(object) == object \in Objects /\ object[Len(object)] = "E_FAIL"

\* str.partition('.'): the part before the first dot and the rest after it.
partition(reference) ==
    IF reference = <<>> THEN [head |-> <<>>, tail |-> <<>>]
    ELSE [head |-> <<reference[1]>>, tail |-> Tail(reference)]

\* getattr(object, attribute) for an attribute without a dot.
getattr(object, attribute) ==
    IF attribute # <<>> /\ object \o attribute \in Objects
    THEN [exc |-> Ok, val |-> object \o attribute]
    ELSE [exc |-> "AttributeError", val |-> <<>>]

\* The loop of find_object_in_namespace: after the tuple assignment `attribute`
\* holds the part before the dot, and it is `attribute` that the next round
\* partitions.
RECURSIVE find_object_loop(_, _)
find_object_loop(object, attribute0) ==
    LET q == partition(attribute0)
        attribute == q.head
        next_attribute == q.tail
        got == getattr(object, attribute)
    IN  IF got.exc # Ok THEN got
        ELSE IF next_attribute = <<>> THEN got
        ELSE find_object_loop(got.val, attribute)

find_object_in_namespace(namespace, reference) ==
    LET q == partition(reference)
    IN  IF q.head \notin namespace THEN [exc |-> "KeyError", val |-> <<>>]
        ELSE find_object_loop(q.head, q.tail)

\* doc._add_doc_exception_name(func, error_name, ...) on a marker `self`.
_add_doc_exception_name(self, error_name) ==
    LET found == find_object_in_namespace(Objects, error_name)
    IN  IF error_name \in Builtins THEN [doc |-> self, exc |-> Ok, found |-> found]
        ELSE IF found.exc # Ok THEN [doc |-> self, exc |-> "ValueError", found |-> found]
        ELSE IF ~IsApplicationError(found.val)
        THEN [doc |-> self, exc |-> "TypeError", found |-> found]
        ELSE [doc |-> [self EXCEPT !.errors_doc = @ \cup {found.val}], exc |-> Ok,
              found |-> found]

\* The docstring of a function names `error_name` in its Raises section.
AddDocExceptionName(error_name) ==
    LET r == _add_doc_exception_name(NewDoc, error_name) IN
    /\ last' = [NoCall EXCEPT !.op = "_add_doc_exception_name", !.input = error_name,
                              !.outcome = r.exc, !.result = [doc |-> r.doc, found |-> r.found]]
    /\ UNCHANGED <<db, committed, seq, active, params, _filter_func, sessions, environ>>

NextDoc ==
    \/ \E ds \in Decorations, b \in Behaviours : Wrapper(ds, b)
    \/ \E error_name \in References : AddDocExceptionName(error_name)

SpecDoc == Init /\ [][NextDoc]_vars

\* ------------------------------------------------------- error response
\* Application errors as the error response sees them: the class fields and
\* the fields of the instance.  None is Null; a dict is named by its text.
ApplicationErrors ==
    [name : {"E_NOT_FOUND", "E_FAIL"}, title : {"Generic error"}, httpcode : {404, 500},
     error : {"what went wrong"}, fixit : {"what to do"},
     info : {"{}", "{object: User}"},
     debug : {Null, "{}", "{sql: SELECT}"}]

\* ErrorObject.from_exception(e, include_debug_info)
from_exception(e, include_debug_info) ==
    [name |-> e.name, title |-> e.title, httpcode |-> e.httpcode,
     error |-> e.error, fixit |-> e.fixit, info |-> e.info,
     debug |-> IF include_debug_info THEN Null ELSE e.debug]

FromException(e, include_debug_info) ==
    /\ last' = [NoCall EXCEPT !.op = "from_exception",
                              !.input = [e |-> e, include_debug_info |-> include_debug_info],
                              !.result = from_exception(e, include_debug_info)]
    /\ UNCHANGED <<db, committed, seq, active, params, _filter_func, sessions, environ>>

NextError == \E e \in ApplicationErrors, i \in BOOLEAN : FromException(e, i)

SpecError == Init /\ [][NextError]_vars

\* ------------------------------------------------- ReturningMutateApi
\* The fields the query object of the returning handler selects.
Select == {"id", "login"}

\* The fields every method of ReturningMutateApi returns, around the result of
\* the inherited method.
Returned(id) == [id |-> id, is_admin |-> TRUE, login |-> "kolypto", name |-> "Mark"]

\* ReturningMutateApi.create(user)
returning_create(c0, user) ==
    LET r == create(Ev(c0, "returning_create"), user)
    IN  IF r.exc # Ok THEN r ELSE [r EXCEPT !.val = Returned(r.val)]

\* ReturningMutateApi.update(user): {..., **user}
returning_update(c0, user) ==
    LET r == update(Ev(c0, "returning_update"), user)
    IN  IF r.exc # Ok THEN r ELSE [r EXCEPT !.val = user @@ Returned(r.val)]

\* ReturningMutateApi.delete is declared delete(self, id) and passes the id on to
\* MutateApi.delete(self): called without an argument the call itself fails,
\* called with one the inherited method rejects it.
returning_delete(c0, args) ==
    [c |-> Ev(c0, "returning_delete"), exc |-> "TypeError", val |-> Empty]

ReturningCreate(d) == SeqLeft(d) /\ Returns("returning_create", d, returning_create(Ctx, d))

ReturningUpdate(d) ==
    PkNames \subseteq DOMAIN d /\ Returns("returning_update", d, returning_update(Ctx, d))

ReturningDelete(args) == Returns("returning_delete", Empty, returning_delete(Ctx, args))

NextReturning ==
    \/ \E d \in InputDicts : ReturningCreate(d)
    \/ \E d \in InputDicts : ReturningUpdate(d)
    \/ \E args \in {<<>>} \cup {<<i>> : i \in Ids} : ReturningDelete(args)
    \/ Rollback

SpecReturning == Init /\ [][NextReturning]_vars

\* ------------------------------------------------------------- listing
\* Creates without a supplied identity and deletes on one session, by a caller
\* whose predicates admit every row, with the listings and the commit.
CreateDicts == {d \in TxnDicts : "is_admin" \in DOMAIN d}

InitListing == Init /\ params.i_am_admin /\ params.by_pk

NextListing ==
    \/ \E d \in CreateDicts : Create(d)
    \/ Delete
    \/ List(0)
    \/ CrudbaseList(0)
    \/ AllUsers
    \/ Commit

SpecListing == InitListing /\ [][NextListing]_vars

\* ------------------------------------------------------ composite identity
\* A handler whose crudsettings.primary_key names two columns: the id, drawn
\* from the sequence when the input omits it, and the login, which as a key
\* column must be given.
composite_key == <<"id", "login">>
CompositeNames == {composite_key[i] : i \in DOMAIN composite_key}

\* pk_provided = set(input_dict) >= set(self.crudsettings.primary_key)
composite_pk_provided(d) == CompositeNames \subseteq DOMAIN d

\* create() on the composite entity: the INSERT of a row without login fails.
composite_create(c0, d) ==
    LET r == create(c0, d)
    IN  IF r.exc # Ok THEN r
        ELSE IF "login" \notin DOMAIN d \/ d["login"] = Null
        THEN [c |-> [r.c EXCEPT !.db = c0.committed, !.active = FALSE],
              exc |-> "IntegrityError", val |-> Empty]
        ELSE [r EXCEPT !.val = [id |-> r.val["id"], login |-> d["login"]]]

\* update() on the composite entity: the lookup is by both key columns.
composite_update(c0, d) ==
    LET r == update(c0, d)
    IN  IF c0.active /\ ~\E x \in c0.db : x.id = d["id"] /\ x.login = d["login"]
        THEN [c |-> from_input_dict(Ev(Ev(Ev(c0, "update"), "update_id"), "find"), d),
              exc |-> "NoResultFound", val |-> Empty]
        ELSE IF r.exc # Ok THEN r
        ELSE [r EXCEPT !.val = [id |-> r.val["id"], login |-> d["login"]]]

composite_create_or_update(c0, d) ==
    LET c == Ev(c0, "create_or_update")
    IN  IF composite_pk_provided(d) THEN composite_update(c, d) ELSE composite_create(c, d)

CompositeCreateOrUpdate(d) ==
    SeqLeft(d) /\ Returns("composite_create_or_update", d, composite_create_or_update(Ctx, d))

NextComposite ==
    \/ \E d \in InputDicts : CompositeCreateOrUpdate(d)
    \/ Rollback

SpecComposite == Init /\ [][NextComposite]_vars

\* ------------------------------------------------------ concurrent sessions
\* Two sessions, each with a handler of its own, call update_id() for the same
\* entity.  `committed` is the backing store; a session's UPDATE stays in its
\* transaction until the session commits.
LoginValues == {Null, "john1", "john2"}

ConcurrentDicts ==
    {l @@ a : l \in {Empty} \cup {[x \in {"login"} |-> v] : v \in LoginValues},
              a \in {Empty} \cup {[x \in {"is_admin"} |-> b] : b \in BOOLEAN}} \ {Empty}

\* The handler of a session: the committed rows are what its SELECT reads.
SessionCtx == [Ctx EXCEPT !.db = committed, !.active = TRUE]

\* The position of the next lookup or flush in the order of all of them.
Clock ==
    1 + CHOOSE n \in 0..(4 * Cardinality(Sessions)) :
            /\ \A s \in Sessions : sessions[s].found_no <= n /\ sessions[s].flush_no <= n
            /\ \E s \in Sessions : sessions[s].found_no = n \/ sessions[s].flush_no = n

\* The flush that writes the values the instance had when it was loaded.
UpdatedColumns_stale(inst) ==
    LET changed == {k \in DOMAIN inst.committed_state \cap Columns :
                        inst.attrs[k] # inst.committed_state[k]}
    IN  [k \in changed |-> inst.committed_state[k]]

\* ssn.flush() of a modified instance: UPDATE ... SET the columns whose value
\* differs from the loaded one WHERE the primary key is the instance's identity.
UpdatedColumns(inst) ==
    LET changed == {k \in DOMAIN inst.committed_state \cap Columns :
                        inst.attrs[k] # inst.committed_state[k]}
    IN  [k \in changed |-> inst.attrs[k]]

\* The session has written the row and not committed: it holds the row's lock.
Holds(s) == sessions[s].pc = "flushed" /\ DOMAIN sessions[s].writes # {}

SessionStep(s, new) ==
    /\ sessions' = [sessions EXCEPT ![s] = new]
    /\ UNCHANGED <<seq, active, params, _filter_func, last, environ>>

\* update_id(d), first statement: instance = self._find_instance()
Find(s, d) ==
    LET f == _find_instance(SessionCtx) IN
    /\ sessions[s].pc = "idle"
    /\ SessionStep(s, IF f.exc # Ok
                      THEN [sessions[s] EXCEPT !.pc = "done", !.input = d, !.outcome = f.exc]
                      ELSE [sessions[s] EXCEPT !.pc = "found", !.input = d, !.inst = f.inst,
                                               !.found_no = Clock])
    /\ UNCHANGED <<db, committed>>

\* update_id(d), the rest: _update_instance() and the flush.  The UPDATE waits
\* while another session holds the row.
Flush(s) ==
    LET u == _update_instance(SessionCtx, sessions[s].inst, sessions[s].input)
        w == UpdatedColumns(u.inst)
    IN  /\ sessions[s].pc = "found"
        /\ DOMAIN w = {} \/ \A t \in Sessions \ {s} : ~Holds(t)
        /\ SessionStep(s, [sessions[s] EXCEPT !.pc = "flushed", !.inst = u.inst,
                                              !.writes = w, !.flush_no = Clock])
        /\ UNCHANGED <<db, committed>>

\* The backing store refuses the UPDATE of a row that another session has
\* written since this session read it.
FlushConflict(s) ==
    LET u == _update_instance(SessionCtx, sessions[s].inst, sessions[s].input) IN
    /\ sessions[s].pc = "found"
    /\ DOMAIN UpdatedColumns(u.inst) # {}
    /\ \E t \in Sessions \ {s} : sessions[t].flush_no > sessions[s].found_no
                                  /\ DOMAIN sessions[t].writes # {}
    /\ SessionStep(s, [sessions[s] EXCEPT !.pc = "done", !.outcome = "OperationalError"])
    /\ UNCHANGED <<db, committed>>

\* ssn.commit() of the session: its UPDATE becomes the stored row.
CommitSession(s) ==
    LET w == sessions[s].writes
        stored == {IF r.id = sessions[s].inst.identity[1] THEN w @@ r ELSE r : r \in committed}
    IN  /\ sessions[s].pc = "flushed"
        /\ committed' = stored
        /\ db' = stored
        /\ SessionStep(s, [sessions[s] EXCEPT !.pc = "done", !.outcome = Ok])

InitConcurrent ==
    /\ committed \in {{r} : r \in {x \in Rows : x.id = 1}}
    /\ db = committed
    /\ seq = 1
    /\ active = TRUE
    /\ params \in {p \in ParamsSet : p.by_pk /\ p.id = 1}
    /\ _filter_func = "unset"
    /\ last = NoCall
    /\ sessions = NoSessions
    /\ environ = NoEnviron

NextConcurrent ==
    \/ \E s \in Sessions, d \in ConcurrentDicts : Find(s, d)
    \/ \E s \in Sessions : Flush(s)
    \/ \E s \in Sessions : FlushConflict(s)
    \/ \E s \in Sessions : CommitSession(s)

SpecConcurrent == InitConcurrent /\ [][NextConcurrent]_vars

\* ------------------------------------------------------------------ claims
Has(tr, e) == \E i \in DOMAIN tr : tr[i] = e
Precedes(tr, a, b) == \A i, j \in DOMAIN tr : tr[i] = a /\ tr[j] = b => i < j

\* The entities the lookup of the last call matched, from the table as it was
\* before the call and the Parameters the lookup ran with.
Matches == {r \in last.before : filter_one(params, r)}
Target == CHOOSE r \in Matches : TRUE
Succeeded(op) == last.op = op /\ last.outcome = Ok
\* The target entity with the input's columns assigned.
Assigned(t, d) == [k \in Columns |-> IF k \in DOMAIN d THEN d[k] ELSE t[k]]

\* C1: in every successful mutation (create, update, update_id, create_or_update,
\* delete) the pre-save hook is invoked exactly once, before the flush of the
\* operation, with (new=entity, prev=None) for create, (new=entity,
\* prev=snapshot) for update and (new=None, prev=entity) for delete.
C1_PresaveOnceBeforeFlush ==
    (/\ last.op \in {"create", "create_or_update", "update", "update_id", "delete"}
     /\ last.outcome = Ok) =>
        /\ Len(last.hooks) = 1
        /\ Has(last.trace, "flush")
        /\ Precedes(last.trace, "hook", "flush")
        /\ last.op = "create" =>
              last.hooks[1].new = <<last.input>> /\ last.hooks[1].prev = <<>>
        /\ last.op \in {"update", "update_id"} =>
              /\ Len(last.hooks[1].new) = 1 /\ Len(last.hooks[1].prev) = 1
              /\ \A k \in Columns : last.hooks[1].new[1][k] = Assigned(Target, last.input)[k]
        /\ last.op = "delete" =>
              last.hooks[1].new = <<>> /\ last.hooks[1].prev = <<Target>>

C1_Witness ==
    /\ Succeeded("create")
    /\ last.input # Empty
    /\ last.trace = <<"create", "construct", "hook", "add", "flush", "pk">>

\* C2: for update_id() and delete(), a lookup that matches no entity and a lookup
\* that matches two or more raise two different failures, and in neither case is
\* an entity mutated.
C2_ZeroAndManyDistinct ==
    (last.op \in {"update_id", "delete"} /\ last.outcome # "PendingRollbackError") =>
        /\ Matches = {} => last.outcome = "NoResultFound"
        /\ Cardinality(Matches) >= 2 => last.outcome = "MultipleResultsFound"
        /\ Cardinality(Matches) # 1 => db = last.before /\ last.hooks = <<>>

C2_Witness ==
    /\ last.op = "update_id"
    /\ last.input # Empty
    /\ last.outcome = "MultipleResultsFound"
    /\ Cardinality(Matches) = 2

\* C3: update(d), update_id(d) and delete() with no entity matching the lookup
\* raise NotFound (NoResultFound) and leave the entities alone: no attribute is
\* assigned, the hook is not invoked, nothing is flushed, the table is as before.
C3_NotFoundNoEffect ==
    (/\ last.op \in {"update", "update_id", "delete"}
     /\ last.outcome # "PendingRollbackError"
     /\ Matches = {}) =>
        /\ last.outcome = "NoResultFound"
        /\ db = last.before
        /\ last.hooks = <<>>
        /\ ~Has(last.trace, "assign")
        /\ ~Has(last.trace, "flush")

C3_Witness ==
    /\ last.op = "update"
    /\ last.outcome = "NoResultFound"
    /\ last.before # {}
    /\ DOMAIN last.input = {"id", "login"}

\* C4: a successful update_id(d) is partial: the target's columns that are keys of
\* d take d's values, its other columns keep theirs, and no other entity changes.
C4_UpdateIsPartial ==
    Succeeded("update_id") =>
        db = (last.before \ {Target}) \cup {Assigned(Target, last.input)}

C4_Witness ==
    /\ Succeeded("update_id")
    /\ DOMAIN last.input = {"login"}
    /\ Target.login # last.input["login"]
    /\ Target.is_admin
    /\ Cardinality(last.before) = 2

\* The entities a call matched, from its record and the Parameters it ran with.
MatchesOf(l, p) == {r \in l.before : filter_one(p, r)}

\* C5: for every valid input dictionary d without identity fields, create(d)
\* returns the identity of the entity it persisted, and a get() issued next on
\* the same session, before any commit, with Parameters naming that identity
\* (and a filter that admits the entity) returns a row with d's value for every
\* key of d. Stated for both get() implementations.
C5_IdentityRoundTrip ==
    [][/\ (last'.op = "create" /\ last'.outcome = Ok /\ "id" \notin DOMAIN last'.input) =>
            \E r \in db' \ db :
                /\ last'.result = [id |-> r.id]
                /\ \A k \in DOMAIN last'.input : r[k] = last'.input[k]
       /\ (/\ last.op = "create" /\ last.outcome = Ok /\ "id" \notin DOMAIN last.input
           /\ last'.op \in {"get", "crudbase_get"}
           /\ params.by_pk /\ params.id = last.result["id"]
           /\ \E r \in db : r.id = params.id /\ filter(params, r)) =>
            /\ last'.outcome = Ok
            /\ \A k \in DOMAIN last.input : last'.result[k] = last.input[k]]_vars

\* C6: create_or_update(d) calls create iff the keys of d do not cover every
\* declared identity field; otherwise it calls update_id.
C6_CreateOrUpdateDispatch ==
    last.op = "create_or_update" =>
        /\ Has(last.trace, "create") <=> ~(PkNames \subseteq DOMAIN last.input)
        /\ Has(last.trace, "update_id") <=> PkNames \subseteq DOMAIN last.input

C6_Witness ==
    /\ Succeeded("create_or_update")
    /\ Has(last.trace, "update_id")
    /\ db # last.before

\* C7 as stated: when d contains every identity field and the entity exists,
\* create_or_update(d) called twice in a row returns the same PrimaryKeyResult
\* both times and the second call leaves the persisted state of the first.
C7_IdempotentAsStated ==
    [][(/\ last.op = "create_or_update" /\ last.outcome = Ok
        /\ PkNames \subseteq DOMAIN last.input
        /\ last'.op = "create_or_update" /\ last'.input = last.input) =>
            /\ last'.outcome = Ok
            /\ last'.result = last.result
            /\ db' = db]_vars

\* C7: when d contains every identity field, the entity exists and, with d's
\* values assigned, it still passes the filter of the Parameters, then
\* create_or_update(d) called twice in a row returns the same PrimaryKeyResult
\* both times and the second call leaves the persisted state of the first.
C7_IdempotentWhileVisible ==
    [][(/\ last.op = "create_or_update" /\ last.outcome = Ok
        /\ PkNames \subseteq DOMAIN last.input
        /\ \E r \in db : r.id = last.result["id"] /\ filter(params, r)
        /\ last'.op = "create_or_update" /\ last'.input = last.input) =>
            /\ last'.outcome = Ok
            /\ last'.result = last.result
            /\ db' = db]_vars

C7_Witness ==
    /\ Succeeded("create_or_update")
    /\ DOMAIN last.input = {"id", "login"}
    /\ last.result = [id |-> last.input["id"]]
    /\ db = last.before
    /\ \E r \in db : r.id = last.input["id"] /\ r.login = last.input["login"]

\* C8: in a successful update_id(d) the hook's prev is the entity as it was before
\* this operation assigned d, and new carries d's values; also when the entity
\* carries an uncommitted change of an earlier operation. In a successful
\* delete() prev is the entity as loaded, and the hook precedes the removal.
C8_PrevIsBeforeThisOperation ==
    /\ Succeeded("update_id") =>
          /\ last.hooks[1].prev = <<Target>>
          /\ \A k \in DOMAIN last.input : last.hooks[1].new[1][k] = last.input[k]
    /\ Succeeded("delete") =>
          /\ last.hooks[1].prev = <<Target>>
          /\ Precedes(last.trace, "hook", "delete_instance")

C8_Witness ==
    /\ Succeeded("update_id")
    /\ "login" \in DOMAIN last.input
    /\ last.input["login"] # Target.login
    /\ \E r \in committed : r.id = Target.id /\ r.is_admin # Target.is_admin

C10_InvalidFieldFails ==
    (/\ last.op \in {"create", "update_id"}
     /\ ~(DOMAIN last.input \subseteq Columns)
     /\ last.outcome \notin {"PendingRollbackError", "NoResultFound", "MultipleResultsFound"}) =>
        /\ last.outcome = "TypeError"
        /\ db = last.before

\* The input violates a constraint of the table: is_admin is NOT NULL, id is unique.
ViolatesConstraint(d, table) ==
    \/ "is_admin" \notin DOMAIN d
    \/ "id" \in DOMAIN d /\ \E r \in table : r.id = d["id"]

\* C11: a create(d) that violates the uniqueness or the not-null constraint
\* raises the IntegrityError of the flush as it is, persists no row for d and
\* leaves the session unusable: every mutation before a rollback fails with
\* PendingRollbackError and changes nothing; after the rollback a valid create
\* on the same session succeeds.
C11_ConstraintViolation ==
    [][/\ (last'.op = "create" /\ active /\ ViolatesConstraint(last'.input, db)) =>
            /\ last'.outcome = "IntegrityError"
            /\ ~active'
            /\ db' = committed
            /\ Len(last'.trace) > 0 /\ last'.trace[Len(last'.trace)] = "flush"
       /\ (~active /\ last'.op \in {"create", "create_or_update", "update",
                                    "update_id", "delete"}) =>
            last'.outcome = "PendingRollbackError" /\ db' = db /\ ~active'
       /\ (last.op = "rollback" /\ last'.op = "create"
           /\ ~ViolatesConstraint(last'.input, db)) =>
            /\ last'.outcome = Ok
            /\ \E r \in db' \ db : last'.result = [id |-> r.id]]_vars

C11_Witness ==
    /\ last.op = "create"
    /\ last.outcome = "IntegrityError"
    /\ "id" \in DOMAIN last.input /\ "is_admin" \in DOMAIN last.input
    /\ last.before # {}
    /\ ~active

\* The entities of the table with the identity the Parameters name.
Named == {r \in last.before : r.id = params.id}

\* C12: update(d) and delete() by Parameters that name an identity: when the
\* entity exists but fails the caller's filter predicates the call raises
\* NoResultFound, as it does when no entity has that identity, and the table is
\* unchanged; when the predicates admit the entity the call succeeds and returns
\* its identity.
C12_FilterScopesLookup ==
    (/\ last.op \in {"update", "delete"}
     /\ params.by_pk
     /\ last.outcome # "PendingRollbackError") =>
        /\ (\A r \in Named : ~filter(params, r)) =>
              last.outcome = "NoResultFound" /\ db = last.before
        /\ (\E r \in Named : filter(params, r)) =>
              last.outcome = Ok /\ last.result = [id |-> params.id]

C12_Witness ==
    /\ last.op = "delete"
    /\ params.by_pk /\ ~params.i_am_admin
    /\ \E r \in Named : r.is_admin
    /\ last.outcome = "NoResultFound"
    /\ Cardinality(db) = 2

\* C13: the customization hook adds the caller's predicates only to the statement
\* of query level 0: a statement of a nested level comes back unchanged and
\* nothing is raised; the statement of level 0 comes back restricted to the rows
\* that satisfy every predicate of the selected filter function, and an empty
\* predicate set (an admin's filter()) restricts nothing.
C13_FilterOnlyAtLevelZero ==
    /\ last.op \in {"list", "crudbase_list", "count", "crudbase_count"} => last.outcome = Ok
    /\ last.outcome \notin {"NotImplementedError", "AttributeError"}
    /\ \A i \in DOMAIN last.customized :
          LET h == last.customized[i]
          IN  /\ h.query_level > 0 => h.out = h.stmt
              /\ (h.query_level = 0 /\ h._filter_func \in {"filter", "filter_many"}) =>
                    /\ h.out = {r \in h.stmt : params.i_am_admin \/ r.is_admin = FALSE}
                    /\ params.i_am_admin => h.out = h.stmt
              /\ (h.query_level = 0 /\ h._filter_func = "filter_one") =>
                    h.out = {r \in h.stmt : /\ params.i_am_admin \/ r.is_admin = FALSE
                                            /\ params.by_pk => r.id = params.id}

C13_Witness ==
    /\ last.op = "list"
    /\ Len(last.customized) = 2
    /\ last.customized[1].query_level = 0
    /\ last.customized[1].out # last.customized[1].stmt
    /\ last.customized[1].out # {}
    /\ last.customized[2].query_level = 1
    /\ last.customized[2].out # {}

\* The filter function each read selects.
Selects(op) == IF op \in {"get", "crudbase_get"} THEN "filter_one"
               ELSE IF op \in {"list", "count"} THEN "filter"
               ELSE "filter_many"

\* C14: in any sequence of list(), get() and count() calls on one handler, every
\* run of the hook during a call uses the filter function of that call: the
\* listing filter (filter, or filter_many in crudbase.py) for list() and count(),
\* filter_one for get(); never the function an earlier call of another kind
\* selected, and never none.
C14_FilterOfTheCall ==
    last.op \in {"list", "get", "count", "crudbase_list", "crudbase_get", "crudbase_count"} =>
        /\ Len(last.customized) >= 1
        /\ \A i \in DOMAIN last.customized :
              /\ last.customized[i]._filter_func = Selects(last.op)
              /\ last.customized[i]._filter_func # "unset"
        /\ _filter_func = Selects(last.op)
        /\ LET h == last.customized[1]
           IN  h.query_level = 0 /\ h.out = {r \in h.stmt : Predicates(Selects(last.op), params, r)}

C14_Witness ==
    /\ last.op = "get"
    /\ last.outcome = Ok
    /\ Len(last.customized) = 2
    /\ last.customized[1]._filter_func = "filter_one"
    /\ Cardinality(last.customized[1].stmt) = 2
    /\ \A r \in db : filter(params, r)

\* C15 as stated: a get() whose filter_one predicates match no row signals a
\* failure of the same kind as the update_id() or delete() that just failed on
\* the same session because its lookup matched no entity.
C15_SameNotFoundKind ==
    [][(/\ last.op \in {"update_id", "delete"}
        /\ last.outcome \notin {Ok, "PendingRollbackError", "IntegrityError"}
        /\ last'.op \in {"get", "crudbase_get"}
        /\ \A r \in db : ~filter_one(params, r)
        /\ \A r \in committed : ~filter_one(params, r)) =>
            last'.outcome = last.outcome]_vars

\* C16: inside the error-translation scope of get() (query_api.py), a lookup of
\* exactly one row that matches no row and one that matches several rows both
\* end in the typed error E_NOT_FOUND; a lookup that matches one row returns it.
C16_BothBecomeNotFound ==
    (last.op = "get" /\ last.outcome # "PendingRollbackError") =>
        LET rows == {r \in last.before : filter_one(params, r)}
        IN  /\ rows = {} => last.outcome = "E_NOT_FOUND"
            /\ Cardinality(rows) > 1 => last.outcome = "E_NOT_FOUND"
            /\ Cardinality(rows) = 1 => last.outcome = Ok /\ last.result \in rows

C16_Witness ==
    /\ last.op = "get"
    /\ last.outcome = "E_NOT_FOUND"
    /\ Cardinality({r \in last.before : filter_one(params, r)}) = 2

\* C17 as stated: in create(d) and update_id(d) of a handler that declares a
\* custom-field handler, the plain attribute-assignment path never receives a
\* declared key: the constructor is not given it as a keyword (so it cannot
\* reject it) and no attribute of that name is assigned to the entity.
C17_CustomKeysStripped ==
    (/\ last.op \in {"create", "update_id"}
     /\ DOMAIN last.input \cap CustomKeys # {}
     /\ last.outcome \notin {"PendingRollbackError", "NoResultFound", "MultipleResultsFound"}) =>
        /\ last.outcome # "TypeError"
        /\ \A i \in DOMAIN last.hooks :
              last.hooks[i].new # <<>> => DOMAIN last.hooks[i].new[1] \cap CustomKeys = {}

C19_UpdateIsUpdateIdOfInput ==
    [][last'.op = "update" =>
        LET r == update_id([Ctx EXCEPT !.params.id = last'.input["id"]], last'.input) IN
        /\ last'.outcome = r.exc
        /\ last'.result = r.val
        /\ last'.hooks = r.c.hooks
        /\ last'.found = r.c.found
        /\ db' = r.c.db
        /\ active' = r.c.active]_vars

\* update(d) changed one of two persisted entities: the identity decided which.
C19_Witness ==
    /\ last.op = "update"
    /\ last.outcome = Ok
    /\ Cardinality(last.before) = 2
    /\ db # last.before

\* C20 as stated: no public operation changes the Parameters of its handler; after
\* update(d) returns or raises they name the identity they named before, so a
\* later update_id() or delete() targets the original identity.
C20_ParamsUnchanged == [][params' = params]_vars

\* C21: the PrimaryKeyResult of a successful mutation pairs the declared identity
\* field names, in order, with the entity's persisted identity after the flush:
\* update_id(d) with d assigning a new identity returns the new identity and the
\* row is stored under it (and no longer under the old one), and create(d) with
\* d supplying the identity returns exactly that identity.
C21_ResultIsPersistedIdentity ==
    /\ (last.op \in {"create", "update_id"} /\ last.outcome = Ok) =>
          /\ DOMAIN last.result = PkNames
          /\ \E r \in db : r.id = last.result["id"]
          /\ "id" \in DOMAIN last.input => last.result["id"] = last.input["id"]
    /\ (Succeeded("update_id") /\ "id" \in DOMAIN last.input) =>
          /\ Assigned(Target, last.input) \in db
          /\ Target.id # last.input["id"] => ~\E r \in db : r.id = Target.id
    /\ (Succeeded("create") /\ "id" \in DOMAIN last.input) =>
          RowOf(last.input, last.input["id"]) \in db

\* update_id(d) moved an entity to another identity.
C21_Witness ==
    /\ Succeeded("update_id")
    /\ "id" \in DOMAIN last.input
    /\ Target.id # last.input["id"]
    /\ last.result = [id |-> last.input["id"]]

\* The stored row of the entity both sessions update, and the session whose
\* flush came later.
StoredEntity == CHOOSE r \in committed : r.id = params.id
LaterFlush == CHOOSE s \in Sessions : \A t \in Sessions : sessions[t].flush_no <= sessions[s].flush_no

\* C22: when two sessions have run update_id() on the same entity and both have
\* completed without a conflict raised by the backing store, every field that
\* the flushes of both wrote holds the value given by the session whose flush
\* was the later one; nothing in the handler orders the lookup and the flush of
\* one call with respect to the other call.
C22_LaterFlushWins ==
    (\A s \in Sessions : sessions[s].pc = "done" /\ sessions[s].outcome = Ok) =>
        \A k \in Columns :
            (\A s \in Sessions : k \in DOMAIN sessions[s].writes) =>
                StoredEntity[k] = sessions[LaterFlush].input[k]

\* Both lookups succeeded before either flush, both flushes wrote login with
\* different values, and both calls completed.
C22_Witness ==
    /\ \A s \in Sessions : sessions[s].pc = "done" /\ sessions[s].outcome = Ok
    /\ \A s, t \in Sessions : sessions[s].found_no < sessions[t].flush_no
    /\ \A s \in Sessions : "login" \in DOMAIN sessions[s].writes
    /\ sessions[1].writes["login"] # sessions[2].writes["login"]

\* C23 as stated: create_or_update(d) with some but not all fields of a composite
\* identity is an error: the call does not succeed and no entity is created or
\* updated by it.
C23_PartialIdentityIsError ==
    (/\ last.op = "composite_create_or_update"
     /\ DOMAIN last.input \cap CompositeNames # {}
     /\ ~composite_pk_provided(last.input)) =>
        /\ last.outcome # Ok
        /\ \A r \in db : r \in last.before

\* C24 as stated: after successful creates (without a supplied identity) and
\* deletes from an empty table, each such create has returned an identity
\* greater than every one returned before, hence pairwise distinct, and list()
\* by a caller with unrestricted predicates returns exactly the entities created
\* and not deleted, one row each, a field that no input set being null.
C24_DistinctIdsAndListing ==
    /\ (Succeeded("create") /\ "id" \notin DOMAIN last.input) =>
          /\ last.result["id"] = seq
          /\ \A r \in last.before : r.id < seq
          /\ RowOf(last.input, seq) \in db
    /\ (last.op \in {"list", "crudbase_list"} /\ last.outcome = Ok) =>
          last.result = db

\* C25 as stated: ReturningMutateApi returns the mutated row projected on the
\* selected fields: create(d) and update(d) return exactly the selected fields
\* with the values persisted, and delete() without an argument removes the
\* entity the Parameters name and returns its selected fields as they were.
C25_ReturnsSelectedFields ==
    /\ (last.op \in {"returning_create", "returning_update"} /\ last.outcome = Ok) =>
          /\ DOMAIN last.result = Select
          /\ \E r \in db : \A k \in Select : last.result[k] = r[k]
    /\ (last.op = "returning_delete" /\ Matches # {}) =>
          /\ last.outcome = Ok
          /\ DOMAIN last.result = Select
          /\ \A k \in Select : last.result[k] = Target[k]
          /\ Target \notin db

\* The last call was update_id(d) by a caller restricted to is_admin == false,
\* on the entity its Parameters name, with d setting is_admin to true.
Escaping ==
    /\ last.op = "update_id"
    /\ last.outcome # "PendingRollbackError"
    /\ ~params.i_am_admin /\ params.by_pk
    /\ Matches # {}
    /\ "is_admin" \in DOMAIN last.input /\ last.input["is_admin"]
    /\ "id" \notin DOMAIN last.input

\* C26: update_id(d) checks the caller's predicates against the entity as it was
\* before the update only: an update that makes the entity stop satisfying them
\* succeeds and is persisted, and the same caller's next update_id() or delete()
\* on that identity raises NoResultFound and changes nothing.
C26_FilterCheckedBeforeUpdateOnly ==
    [][/\ Escaping' => /\ last'.outcome = Ok
                       /\ \E r \in db' : r.id = params'.id /\ r.is_admin
                                         /\ ~filter_one(params', r)
       /\ (Escaping /\ last'.op \in {"update_id", "delete"}) =>
              /\ last'.outcome = "NoResultFound"
              /\ db' = db]_vars

\* The caller's own update has put the entity out of the caller's reach.
C26_Witness ==
    /\ Escaping
    /\ last.outcome = Ok
    /\ \E r \in db : r.id = params.id /\ r.is_admin /\ ~filter_one(params, r)

\* C27 as stated: the error object built by from_exception(e, include_debug_info)
\* carries e.debug in its debug field exactly when include_debug_info is true,
\* and None when it is false.
C27_DebugOnlyWhenAsked ==
    last.op = "from_exception" =>
        last.result.debug = IF last.input.include_debug_info
                            THEN last.input.e.debug ELSE Null

\* C28 as stated: every error class given to @doc.error on a function is in the
\* marker's errors_doc, so the checking wrapper re-raises a documented
\* application error unchanged, raises AssertionError for an application error
\* that is not documented, and passes every other exception and every return
\* value through.
C28_DocumentedErrorsPass ==
    last.op = "wrapper" =>
        LET documented == {last.input.errors[i] : i \in DOMAIN last.input.errors}
            b == last.input.behaviour
        IN  /\ documented \subseteq last.result.errors_doc
            /\ last.outcome = IF b \in ErrorClasses \ documented THEN "AssertionError" ELSE b

\* C29 as stated: find_object_in_namespace resolves a plain name to
\* namespace[name] and a dotted reference to the attribute reached by following
\* every part in order, so a Raises entry that names an application error in
\* either form is added to errors_doc and not rejected with ValueError.
C29_ResolvesBothForms ==
    (last.op = "_add_doc_exception_name" /\ last.input \in Objects) =>
        /\ last.result.found = [exc |-> Ok, val |-> last.input]
        /\ IsApplicationError(last.input) =>
              /\ last.outcome = Ok
              /\ last.input \in last.result.doc.errors_doc

\* C30: constructing settings rewrites CORS_ORIGINS at most once per process:
\* the first construction replaces it by the JSON list of its comma-separated
\* items without the surrounding whitespace and sets the '::modified' marker;
\* every later construction leaves the environment as it is, so the value after
\* any number of constructions is the value after the first.
C30_RewrittenOnce ==
    [][last'.op = "Settings" =>
        /\ environ'.modified /\ environ'.set
        /\ environ.modified => environ' = environ
        /\ ~environ.modified =>
              LET v == IF environ.set THEN environ.text ELSE <<>>
                  items == [n \in DOMAIN split(v) |-> strip(split(v)[n])]
              IN  /\ environ'.text = dumps(items)
                  /\ \A n \in DOMAIN items :
                        /\ \A k \in DOMAIN items[n] : items[n][k] # ","
                        /\ items[n] # <<>> => items[n][1] # " " /\ items[n][Len(items[n])] # " "
                  /\ Len(items) = 1 + Cardinality({k \in DOMAIN v : v[k] = ","})]_vars

\* A later construction, in a process whose variable held two items.
C30_Witness ==
    /\ last.op = "Settings"
    /\ last.input.modified
    /\ environ = last.input
    /\ environ.text = <<"[", "\"", "a", "\"", ",", " ", "\"", "a", "\"", "]">>
====
